---- MODULE Spec2Model ----
(***************************************************************************)
(* bahmutov/fp-examples, 00-imperative: "multiply every number by a        *)
(* constant and print it", from the imperative loop to the pure main that  *)
(* returns a cold RxJS 5 Observable:                                       *)
(*                                                                         *)
(*   function multiplyBy (constant, numbers) {                             *)
(*     const byConstant = multiply(constant)                               *)
(*     return numbers.map(byConstant)                                      *)
(*   }                                                                     *)
(*   function main (constant, numbers, control) {                          *)
(*     const nums = Rx.Observable.zip(numbers, control, (number, _) => number) *)
(*     return multiplyBy(constant, nums)                                   *)
(*   }                                                                     *)
(*   const app = main(constant, numbers, seconds)  // nothing is executing *)
(*   app.subscribe(console.log)                    // GO!                  *)
(*                                                                         *)
(* The state is what a run of this program holds: the arguments the        *)
(* bootstrap passes to main, the pipelines main has built, and, for every  *)
(* subscription to a pipeline, the subscriber chain zip -> map -> callbacks *)
(* (flags, zip's per-source buffers, the callbacks invoked so far) and the *)
(* position of each source stream.  JavaScript runs one callback at a      *)
(* time, so every delivery of one source event, with everything it         *)
(* triggers downstream, is one action.                                     *)
(***************************************************************************)
EXTENDS Integers, Sequences, FiniteSets, TLC

\* ------------------------------------------------------------------ bounds

\* Longest array / number stream the bootstrap passes in.
MaxLen == 3

\* How many times main is called in one run.
MaxBuilds == 2

\* How many times a test calls multiplyAndPrint with one spy.
MaxPrints == 2

\* How many subscriptions one run holds.
MaxActs == 2

\* The pacing stream is cut after this many ticks (timer(0, 1000) is infinite).
MaxTicks == MaxLen + 1

Acts == 1..MaxActs

\* ------------------------------------------------------------------ inputs

\* Constants the tests multiply by (spec.js: 2, 10, -1).
Factors == {-1, 2, 10}

\* Array elements of the multiplyBy tests (spec.js: [], [1], [3,1,7], [0,1,2,3]).
Elements == {0, 1, 2, 3, 7}

\* Constants and stream values of the pipeline runs (two of each keep the
\* runs small; repeated values are covered by the sequences over them).
\* JavaScript values that are not all numbers: a number, NaN (of type
\* number), a string.
JsNum(n) == [type |-> "number", n |-> n, text |-> ""]

NaN == [type |-> "number", n |-> 0, text |-> "NaN"]

JsStr(t) == [type |-> "string", n |-> 0, text |-> t]

\* Array elements and stream values that are not all numbers: what a key
\* press or a line of text provides.
JsElements == {JsNum(1), JsNum(3), JsStr("3"), JsStr("a")}

StreamFactors == {-1, 2}

StreamValues == {1, 3}

SeqsUpTo(S, n) == UNION {[1..k -> S] : k \in 0..n}

\* Rx.Observable.of(...xs): emits xs synchronously inside subscribe, then completes.
Of(xs) == [vals |-> xs, end |-> "complete", sync |-> TRUE]

\* A number stream is its values, how it ends, and whether it emits inside
\* subscribe (Observable.of, Observable.throw) or later, one event per
\* callback (key presses, fromEvent).
NumberStreams ==
    {[vals |-> xs, end |-> e, sync |-> s] :
        xs \in SeqsUpTo(StreamValues, MaxLen),
        e \in {"complete", "error"}, s \in BOOLEAN}
    \cup {[vals |-> xs, end |-> "never", sync |-> FALSE] :
        xs \in SeqsUpTo(StreamValues, MaxLen)}

\* Rx.Observable.timer(0, 1000): emits 0, 1, 2, ... from the scheduler, never ends.
Timer == [vals |-> [k \in 1..MaxTicks |-> k - 1], end |-> "never"]

\* The control stream is scheduler driven: the timer, or a timer that
\* completes or fails after m ticks.
ControlStreams ==
    {Timer} \cup
    {[vals |-> [k \in 1..m |-> k - 1], end |-> e] :
        m \in 0..MaxTicks, e \in {"complete", "error"}}

\* ------------------------------------------------------------------- state

VARIABLES
    constant,   \* the bootstrap's constant
    numbers,    \* the bootstrap's number stream
    control,    \* the bootstrap's control (pacing) stream
    built,      \* how many pipelines main has returned
    actLimit,   \* how many subscriptions this run makes
    act,        \* per subscription: the subscriber chain and its sources
    sink,       \* how the next callback passed to subscribe behaves
    given,      \* arguments of the last direct multiplyBy call on an array
    expect,     \* what that call returned
    arrayAfter, \* the caller's array after that call
    out,        \* the calls the out / print callback has received (the spy)
    printCalls, \* multiplyAndPrint calls made with that spy
    thunks,     \* the dirty functions main(print) has returned: their print
    log,        \* the versions of the program run with that spy, in order
    cache,      \* whether require.cache holds the entry of ./index.js
    tests,      \* the mocha tests run in this process, in order, with outcome
    pressed,    \* the keys pressed on the terminal since the key app started
    keyApp      \* the key-driven app: its listeners, its output, its exit

vars ==
    <<constant, numbers, control, built, actLimit, act, sink,
      given, expect, arrayAfter, out, printCalls, thunks, log,
      cache, tests, pressed, keyApp>>

\* The state of the versions that are not built on the observable pipeline.
nodeVars == <<cache, tests, pressed, keyApp>>

hostVars == <<thunks, log, nodeVars>>

\* The key app before its bootstrap has run.
IdleKeyApp ==
    [listening |-> FALSE, emitted |-> <<>>, completed |-> FALSE,
     printed |-> <<>>, exited |-> FALSE]

InitHost ==
    /\ thunks = <<>>
    /\ log = <<>>
    /\ cache = FALSE
    /\ tests = <<>>
    /\ pressed = <<>>
    /\ keyApp = IdleKeyApp

\* A subscription slot nobody has subscribed yet.
IdleAct ==
    [pipe |-> 0, subscribed |-> FALSE, pc |-> "idle",
     isStopped |-> FALSE, closed |-> FALSE, cancelled |-> FALSE,
     calls |-> <<>>, from |-> "none", pending |-> "none", thrown |-> "none",
     active |-> 0,
     numBuf |-> <<>>, ctlBuf |-> <<>>, numDone |-> FALSE, ctlDone |-> FALSE,
     numOpen |-> FALSE, ctlOpen |-> FALSE, numPos |-> 0, ctlPos |-> 0,
     skip |-> 0, take |-> 0, skipped |-> 0, taken |-> 0, tickOffset |-> 0]

\* The three callbacks of subscribe(next, error, complete), as invoked.
NextCall(v) == [kind |-> "next", value |-> v]

ErrorCall == [kind |-> "error", value |-> 0]

CompleteCall == [kind |-> "complete", value |-> 0]

\* --------------------------------------------------------------- transform

\* ramda's multiply.
multiply(a, b) == a * b

\* Fault: numbers.map(multiply), the uncurried binary function, which takes
\* the index Array.prototype.map passes as its second factor.
byConstantIndex(c, x, index, array) == multiply(x, index)

\* const byConstant = multiply(constant): curried, so the index and the
\* array that Array.prototype.map also passes are ignored.
byConstant(c, x, index, array) == multiply(c, x)

\* Fault: an in-place loop, numbers[k] = numbers[k] * constant.
afterMapInPlace(c, xs) == [k \in 1..Len(xs) |-> multiply(c, xs[k])]

\* The array numbers after numbers.map(byConstant): map writes only to the
\* array it returns.
afterMap(c, xs) == xs

\* multiplyBy(constant, numbers) on an array: Array.prototype.map builds a
\* new array of callback(element, index, array), leaving numbers as it was.
multiplyBy(c, xs) == [k \in 1..Len(xs) |-> byConstant(c, xs[k], k - 1, xs)]

\* ToNumber, which the operator * applies to both operands: '3' is 3, the
\* empty string is 0, a string that is no numeral is NaN.
ToNumber(v) ==
    IF v.type = "number" THEN v
    ELSE CASE v.text = "3" -> JsNum(3)
           [] v.text \in {"", "\n", "\r"} -> JsNum(0)
           [] OTHER -> NaN

\* R.multiply(a, b), which is a * b, on any two values: there is no type
\* check and no throw statement.
multiplyJs(a, b) ==
    LET x == ToNumber(a)
        y == ToNumber(b)
    IN IF x = NaN \/ y = NaN THEN NaN ELSE JsNum(multiply(x.n, y.n))

\* multiplyBy(constant, numbers) on an array of any values: what it returns,
\* and whether it threw.
multiplyByJs(c, xs) ==
    [threw |-> FALSE, value |-> [k \in 1..Len(xs) |-> multiplyJs(c, xs[k])]]

\* MapSubscriber._next under multiplyBy(constant, stream): try { result =
\* byConstant(value) } catch (err) { destination.error(err); return };
\* destination.next(result).  byConstant never throws.
mapNextJs(calls, c, v) == Append(calls, NextCall(multiplyJs(c, v)))

\* multiplyBy(constant, Observable.of(...xs)) subscribed: the callbacks the
\* observer has received when subscribe returns.
RECURSIVE ofMapJs(_, _, _)
ofMapJs(calls, c, xs) ==
    IF xs = <<>> THEN Append(calls, [kind |-> "complete", value |-> JsNum(0)])
    ELSE ofMapJs(mapNextJs(calls, c, Head(xs)), c, Tail(xs))

\* const mul = x => y => x * y
mul(x, y) == x * y

\* The arguments Array.prototype.forEach passes to its callback, call by
\* call: the element, its index and the whole array.
forEachArgs(xs) == [k \in 1..Len(xs) |-> <<xs[k], k - 1, xs>>]

\* Fault: out is passed to forEach as it is and receives all three arguments.
unaryAll(args) == args

\* unary(out): x => out(x), passes on its first argument only.
unary(args) == <<args[1]>>

\* numbers.map(byConstant).forEach(callOut): the calls out receives.
mapForEach(c, xs) ==
    LET mapped == [k \in 1..Len(xs) |-> mul(c, xs[k])]
        passed == forEachArgs(mapped)
    IN [k \in 1..Len(passed) |-> unary(passed[k])]

\* The numbers and the constant of every multiplyAndPrint.
PrintNumbers == <<3, 1, 7>>

PrintConstant == 2

\* Fault: the loop starts at k = 1 and skips the first number.
RECURSIVE loopFromOne(_, _)
loopFromOne(k, calls) ==
    IF k + 1 < Len(PrintNumbers)
    THEN loopFromOne(k + 1, Append(calls, <<PrintNumbers[k + 2] * PrintConstant>>))
    ELSE calls

\* for (let k = 0; k < numbers.length; k += 1) out(numbers[k] * constant)
RECURSIVE loop(_, _)
loop(k, calls) ==
    IF k < Len(PrintNumbers)
    THEN loop(k + 1, Append(calls, <<PrintNumbers[k + 1] * PrintConstant>>))
    ELSE calls

\* What main(print) may be handed: the callback itself, or unary(callback)
\* as the module does with console.log.
Prints == {"plain", "unary"}

\* dirty(): multiplyBy(constant, numbers).forEach(print).  The calls the
\* callback receives: forEach passes the element, the index and the array,
\* and only a print wrapped by unary drops the last two.
dirty(print) ==
    LET passed == forEachArgs(multiplyBy(PrintConstant, PrintNumbers))
    IN [k \in 1..Len(passed) |->
           IF print = "unary" THEN unary(passed[k]) ELSE passed[k]]

\* -------------------------------------------------------- subscriber chain

\* Fault: unsubscribe stops the callbacks but leaves the sources subscribed
\* (the timer keeps firing).
TeardownKeepsSources(r) == [r EXCEPT !.isStopped = TRUE, !.closed = TRUE]

\* Subscriber.unsubscribe: stops the chain and tears down both inner
\* subscriptions (the timer's scheduled action, the event listeners).
Teardown(r) ==
    [r EXCEPT !.isStopped = TRUE, !.closed = TRUE,
              !.numOpen = FALSE, !.ctlOpen = FALSE]

\* SafeSubscriber.next: unless the chain has stopped, the sink is called
\* with the value and runs (pc = "sink") until it returns or throws.  It
\* runs on the stack of the subscribe call when a source emits during
\* subscription, and on the stack of a timer or event callback otherwise.
DestNext(r, v) ==
    IF r.isStopped THEN r
    ELSE [r EXCEPT !.calls = Append(@, NextCall(v)), !.pc = "sink",
                   !.from = IF r.pc = "subscribing" THEN "subscribe" ELSE "callback"]

\* Fault: complete() that neither marks the subscriber stopped nor
\* unsubscribes.
DestCompleteNoStop(r) == [r EXCEPT !.calls = Append(@, CompleteCall)]

\* Subscriber.complete: the completion callback once, then unsubscribe.
DestComplete(r) ==
    IF r.isStopped THEN r
    ELSE Teardown([r EXCEPT !.calls = Append(@, CompleteCall)])

\* Subscriber.error: the error callback once, then unsubscribe.
DestError(r) ==
    IF r.isStopped THEN r
    ELSE Teardown([r EXCEPT !.calls = Append(@, ErrorCall)])

\* Fault: take passes its values on and never completes.
TakeNextNoComplete(r, x) ==
    IF r.take = 0 THEN DestNext(r, x)
    ELSE LET count == r.taken + 1
             counted == [r EXCEPT !.taken = count]
         IN IF count <= r.take THEN DestNext(counted, x) ELSE counted

\* TakeSubscriber._next of app.take(total), when the subscription has one
\* (take > 0): count = ++this.count; if (count <= total) { destination.
\* next(value); if (count === total) { destination.complete();
\* this.unsubscribe() } }.  The complete() waits for the sink to return.
TakeNext(r, x) ==
    IF r.take = 0 THEN DestNext(r, x)
    ELSE LET count == r.taken + 1
             counted == [r EXCEPT !.taken = count]
             sent == DestNext(counted, x)
         IN IF count > r.take THEN counted
            ELSE IF count < r.take THEN sent
            ELSE IF sent.pc = "sink" THEN [sent EXCEPT !.pending = "complete"]
            ELSE DestComplete(sent)

\* SkipSubscriber._next of app.skip(total), when the subscription has one
\* (skip > 0): if (++this.count > this.total) destination.next(x).
SkipNext(r, x) ==
    IF r.skip = 0 THEN TakeNext(r, x)
    ELSE LET count == r.skipped + 1
             counted == [r EXCEPT !.skipped = count]
         IN IF count > r.skip THEN TakeNext(counted, x) ELSE counted

\* MapSubscriber._next of numbers.map(byConstant) on the zipped stream; the
\* product goes on to skip and take, where the test has added them.
MapNext(r, v) == SkipNext(r, multiply(constant, v))

\* Fault: a project function that uses the tick, (number, seconds) =>
\* number + seconds.
projectSum(number, tick) == number + tick

\* Fault: a project function that picks the tick, (number, seconds) => seconds.
projectTick(number, tick) == tick

\* zip's project function (number, _) => number.
project(number, tick) == number

\* Fault: checkIterators that never completes on a drained, completed source
\* (the run would wait for a further event).
checkIteratorsNoComplete(r) ==
    IF r.numBuf = <<>> \/ r.ctlBuf = <<>> THEN r
    ELSE MapNext([r EXCEPT !.numBuf = Tail(@), !.ctlBuf = Tail(@)],
                 Head(r.numBuf))

\* Fault: checkIterators that completes only on a drained numbers buffer and
\* overlooks a control stream that has completed.
checkIteratorsNumbersOnly(r) ==
    IF r.numBuf = <<>> \/ r.ctlBuf = <<>> THEN r
    ELSE LET shifted == [r EXCEPT !.numBuf = Tail(@), !.ctlBuf = Tail(@)]
             shouldComplete == shifted.numBuf = <<>> /\ shifted.numDone
             emitted == MapNext(shifted, project(Head(r.numBuf), Head(r.ctlBuf)))
         IN IF emitted.pc = "sink"
            THEN [emitted EXCEPT
                     !.pending = IF shouldComplete \/ emitted.pending = "complete"
                                 THEN "complete" ELSE "none"]
            ELSE IF shouldComplete THEN DestComplete(emitted) ELSE emitted

\* ZipSubscriber.checkIterators: when every buffer holds a value, shift one
\* from each, emit the projection, and complete if a buffer that was shifted
\* empty belongs to a source that has completed.
checkIterators(r) ==
    IF r.numBuf = <<>> \/ r.ctlBuf = <<>> THEN r
    ELSE LET shifted == [r EXCEPT !.numBuf = Tail(@), !.ctlBuf = Tail(@)]
             shouldComplete ==
                 \/ (shifted.numBuf = <<>> /\ shifted.numDone)
                 \/ (shifted.ctlBuf = <<>> /\ shifted.ctlDone)
             emitted == MapNext(shifted, project(Head(r.numBuf), Head(r.ctlBuf)))
         IN IF emitted.pc = "sink"
            THEN [emitted EXCEPT
                     !.pending = IF shouldComplete \/ emitted.pending = "complete"
                                 THEN "complete" ELSE "none"]
            ELSE IF shouldComplete THEN DestComplete(emitted) ELSE emitted

\* Fault: numbers passed straight to map, ungated by the control stream.
notifyNextUngated(r, src, v) == IF src = "num" THEN MapNext(r, v) ELSE r

\* ZipBufferIterator.notifyNext: buffer the value, then checkIterators.
notifyNext(r, src, v) ==
    checkIterators(IF src = "num" THEN [r EXCEPT !.numBuf = Append(@, v)]
                   ELSE [r EXCEPT !.ctlBuf = Append(@, v)])

\* ZipSubscriber.notifyInactive.
notifyInactive(r) ==
    LET dec == [r EXCEPT !.active = @ - 1]
    IN IF dec.active = 0 THEN DestComplete(dec) ELSE dec

\* Fault: a source that completes is only marked, whatever its buffer holds,
\* and the zip waits for the other source.
notifyCompleteWaits(r, src) ==
    notifyInactive(IF src = "num" THEN [r EXCEPT !.numDone = TRUE]
                   ELSE [r EXCEPT !.ctlDone = TRUE])

\* ZipBufferIterator.notifyComplete: a source that completes with values
\* still buffered only marks its iterator; with an empty buffer the zip
\* completes.
notifyComplete(r, src) ==
    LET buf == IF src = "num" THEN r.numBuf ELSE r.ctlBuf
    IN IF buf # <<>>
       THEN notifyInactive(IF src = "num" THEN [r EXCEPT !.numDone = TRUE]
                           ELSE [r EXCEPT !.ctlDone = TRUE])
       ELSE DestComplete(r)

\* Fault: a source's failure is swallowed.
notifyErrorSwallowed(r, src) == r

\* OuterSubscriber.notifyError: a failing source fails the zip at once.
notifyError(r, src) == DestError(r)

\* How a next callback behaves: it throws in its throwAt-th call, and calls
\* unsubscribe on its own subscription in its cancelAt-th call (0: never).
\* x => output.push(x) and console.log do neither.
PlainSink == [throwAt |-> 0, cancelAt |-> 0]

\* Fault: the exception of the sink is caught and dropped, and the run goes on.
AfterSinkSwallowed(r) ==
    LET back == [r EXCEPT !.pc = "idle", !.from = "none", !.pending = "none"]
    IN IF r.pending = "complete" THEN DestComplete(back) ELSE back

\* Fault: unsubscribe called inside the sink is lost.
AfterSinkCancelLost(r) ==
    LET k == Len(SelectSeq(r.calls, LAMBDA c : c.kind = "next"))
        back == [r EXCEPT !.pc = "idle", !.from = "none", !.pending = "none"]
    IN IF k = sink.throwAt
       THEN [Teardown(back) EXCEPT !.thrown = r.from]
       ELSE IF r.pending = "complete" THEN DestComplete(back) ELSE back

\* The sink call in progress ends.  SafeSubscriber.__tryOrUnsub: a sink that
\* throws is unsubscribed and the error rethrown, which unwinds
\* checkIterators and the stack the sink was called on; a sink that returns
\* lets checkIterators go on to complete() if it was due (a no-op once the
\* sink has unsubscribed).
AfterSink(r) ==
    LET k == Len(SelectSeq(r.calls, LAMBDA c : c.kind = "next"))
        back == [r EXCEPT !.pc = "idle", !.from = "none", !.pending = "none"]
    IN IF k = sink.throwAt
       THEN [Teardown(back) EXCEPT !.thrown = r.from]
       ELSE LET returned ==
                    IF k = sink.cancelAt /\ ~back.closed
                    THEN [Teardown(back) EXCEPT !.cancelled = TRUE]
                    ELSE back
            IN IF r.pending = "complete" THEN DestComplete(returned) ELSE returned

\* ----------------------------------------------------------------- sources

\* Events a stream delivers to one subscriber: its values, then its end.
Events(s) == Len(s.vals) + (IF s.end = "never" THEN 0 ELSE 1)

\* The numbers stream delivers its next event to subscription r.
NumDeliver(r) ==
    LET k == r.numPos + 1
        at == [r EXCEPT !.numPos = k]
    IN IF k <= Len(numbers.vals) THEN notifyNext(at, "num", numbers.vals[k])
       ELSE LET ended == [at EXCEPT !.numOpen = FALSE]
            IN IF numbers.end = "error" THEN notifyError(ended, "num")
               ELSE notifyComplete(ended, "num")

\* The control stream delivers its next event to subscription r.
CtlDeliver(r) ==
    LET k == r.ctlPos + 1
        at == [r EXCEPT !.ctlPos = k]
    IN IF k <= Len(control.vals)
       THEN notifyNext(at, "ctl", control.vals[k] + r.tickOffset)
       ELSE LET ended == [at EXCEPT !.ctlOpen = FALSE]
            IN IF control.end = "error" THEN notifyError(ended, "ctl")
               ELSE notifyComplete(ended, "ctl")

\* ArrayObservable._subscribe: for (i = 0; i < count && !subscriber.closed; i++)
\* subscriber.next(array[i]); then subscriber.complete().
RECURSIVE RunSync(_)
RunSync(r) ==
    IF r.numOpen /\ r.numPos < Events(numbers) THEN RunSync(NumDeliver(r)) ELSE r

\* ZipSubscriber._complete: active = 2, then subscribe to numbers, then to
\* control.  A synchronous numbers stream runs to its end before control is
\* subscribed; a control subscription added to a chain that is already
\* closed is unsubscribed at once.
SubscribeSources(r) ==
    LET zip == [r EXCEPT !.active = 2, !.numOpen = TRUE]
        afterNumbers == IF numbers.sync THEN RunSync(zip) ELSE zip
    IN IF afterNumbers.closed THEN afterNumbers
       ELSE [afterNumbers EXCEPT !.ctlOpen = TRUE]

\* ----------------------------------------------------------------- actions

\* A subscribe call or a sink call is on the stack: JavaScript runs it to
\* completion before any other callback starts.
Busy == \E a \in Acts : act[a].pc # "idle"

Subscribed == {a \in Acts : act[a].subscribed}

\* Fault: main ends in .forEach(print), which subscribes: building runs the
\* pipeline.
MainForEach ==
    /\ ~Busy
    /\ built < MaxBuilds
    /\ built' = built + 1
    /\ act' = [act EXCEPT ![1] = IF @.subscribed THEN @ ELSE SubscribeSources(@)]
    /\ UNCHANGED <<constant, numbers, control, actLimit, sink, given, expect, arrayAfter, out, printCalls, hostVars>>

\* Fault: main subscribes to the control stream while building, which starts
\* the timer.
MainStartsTimer ==
    /\ ~Busy
    /\ built < MaxBuilds
    /\ built' = built + 1
    /\ act' = [act EXCEPT ![1] = IF @.subscribed THEN @ ELSE [@ EXCEPT !.ctlOpen = TRUE]]
    /\ UNCHANGED <<constant, numbers, control, actLimit, sink, given, expect, arrayAfter, out, printCalls, hostVars>>

\* main(constant, numbers, control): builds zip and map, returns the Observable.
Main ==
    /\ ~Busy
    /\ built < MaxBuilds
    /\ built' = built + 1
    /\ UNCHANGED <<constant, numbers, control, actLimit, act, sink, given, expect, arrayAfter, out, printCalls, hostVars>>

\* Fault: a hot, shared numbers source: a new subscriber starts where the
\* first subscriber's source has got to, and misses what was emitted before.
SubscribeHot(a, p) ==
    /\ ~Busy
    /\ p \in 1..built
    /\ Cardinality(Subscribed) < actLimit
    /\ a = Cardinality(Subscribed) + 1
    /\ act' = [act EXCEPT ![a] =
                  [@ EXCEPT !.pipe = p, !.subscribed = TRUE, !.pc = "subscribing",
                            !.numPos = act[1].numPos]]
    /\ UNCHANGED <<constant, numbers, control, built, actLimit, sink, given, expect, arrayAfter, out, printCalls, hostVars>>

\* Fault: a pipeline can be subscribed once: a later subscribe call on it is
\* answered with the error callback and runs nothing.
SubscribeOnce(a, p) ==
    /\ ~Busy
    /\ p \in 1..built
    /\ Cardinality(Subscribed) < actLimit
    /\ a = Cardinality(Subscribed) + 1
    /\ act' = [act EXCEPT ![a] =
                  IF \E b \in Subscribed : act[b].pipe = p
                  THEN [DestError(@) EXCEPT !.pipe = p, !.subscribed = TRUE]
                  ELSE [@ EXCEPT !.pipe = p, !.subscribed = TRUE, !.pc = "subscribing"]]
    /\ UNCHANGED <<constant, numbers, control, built, actLimit, sink, given, expect, arrayAfter, out, printCalls, hostVars>>

\* app.subscribe(next, error, complete), entered: the subscriber is created.
\* Observables are cold: every subscribe call creates its own subscriber
\* chain and its own run of both sources.
Subscribe(a, p) ==
    /\ ~Busy
    /\ p \in 1..built
    /\ Cardinality(Subscribed) < actLimit
    /\ a = Cardinality(Subscribed) + 1
    /\ act' = [act EXCEPT ![a] =
                  [@ EXCEPT !.pipe = p, !.subscribed = TRUE, !.pc = "subscribing"]]
    /\ UNCHANGED <<constant, numbers, control, built, actLimit, sink, given, expect, arrayAfter, out, printCalls, hostVars>>

\* A subscribe call has created its subscriber and not yet returned.
CanConnect(a) == act[a].pc = "subscribing"

\* app.subscribe, the rest of the call: the operators subscribe upstream.
Connect(a) ==
    /\ CanConnect(a)
    /\ act' = [act EXCEPT ![a] = [SubscribeSources(@) EXCEPT !.pc = "idle"]]
    /\ UNCHANGED <<constant, numbers, control, built, actLimit, sink, given, expect, arrayAfter, out, printCalls, hostVars>>

\* An asynchronous numbers stream that a is subscribed to has an event left.
CanNumEvent(a) ==
    /\ ~Busy
    /\ act[a].numOpen
    /\ ~numbers.sync
    /\ act[a].numPos < Events(numbers)

\* An asynchronous numbers stream delivers its next event.
NumEvent(a) ==
    /\ CanNumEvent(a)
    /\ act' = [act EXCEPT ![a] = NumDeliver(@)]
    /\ UNCHANGED <<constant, numbers, control, built, actLimit, sink, given, expect, arrayAfter, out, printCalls, hostVars>>

\* Fault: a tick is delivered while a callback is still on the stack, as a
\* preemptive timer thread would.
CanTickAnytime(a) ==
    /\ act[a].ctlOpen
    /\ act[a].ctlPos < Events(control)

\* The control stream that a is subscribed to has an event left.  The timer
\* callback runs on the event loop, after the current callback has returned.
CanTick(a) ==
    /\ ~Busy
    /\ act[a].ctlOpen
    /\ act[a].ctlPos < Events(control)

\* The control stream delivers its next event (a tick, or its end).
Tick(a) ==
    /\ CanTick(a)
    /\ act' = [act EXCEPT ![a] = CtlDeliver(@)]
    /\ UNCHANGED <<constant, numbers, control, built, actLimit, sink, given, expect, arrayAfter, out, printCalls, hostVars>>

\* The sink of a is running.
CanSinkReturn(a) == act[a].pc = "sink"

\* The sink call in progress returns or throws.
SinkReturn(a) ==
    /\ CanSinkReturn(a)
    /\ act' = [act EXCEPT ![a] = AfterSink(@)]
    /\ UNCHANGED <<constant, numbers, control, built, actLimit, sink, given, expect, arrayAfter, out, printCalls, hostVars>>

\* Fault: unsubscribe without the closed check, which cancels a subscription
\* that has already completed or failed.
UnsubscribeUnchecked(a) ==
    /\ ~Busy
    /\ act[a].subscribed
    /\ act' = [act EXCEPT ![a] = [Teardown(@) EXCEPT !.cancelled = TRUE]]
    /\ UNCHANGED <<constant, numbers, control, built, actLimit, sink, given, expect, arrayAfter, out, printCalls, hostVars>>

\* Fault: the subscriptions share one handle: unsubscribing one tears down
\* every running subscription.
UnsubscribeShared(a) ==
    /\ ~Busy
    /\ act[a].subscribed
    /\ act' = [b \in Acts |->
                  IF act[b].closed \/ ~act[b].subscribed THEN act[b]
                  ELSE [Teardown(act[b]) EXCEPT !.cancelled = TRUE]]
    /\ UNCHANGED <<constant, numbers, control, built, actLimit, sink, given, expect, arrayAfter, out, printCalls, hostVars>>

\* subscription.unsubscribe() on the handle subscribe returned; a no-op on a
\* closed subscription.
Unsubscribe(a) ==
    /\ ~Busy
    /\ act[a].subscribed
    /\ act' = [act EXCEPT ![a] =
                  IF @.closed THEN @ ELSE [Teardown(@) EXCEPT !.cancelled = TRUE]]
    /\ UNCHANGED <<constant, numbers, control, built, actLimit, sink, given, expect, arrayAfter, out, printCalls, hostVars>>

\* A direct call multiplyBy(c, xs) on an array, as the unit tests make.
CallMultiplyBy ==
    /\ \E c \in Factors, xs \in SeqsUpTo(Elements, MaxLen) :
          /\ given' = <<c, xs>>
          /\ expect' = multiplyBy(c, xs)
          /\ arrayAfter' = afterMap(c, xs)
    /\ UNCHANGED <<constant, numbers, control, built, actLimit, act, sink, out, printCalls, hostVars>>

\* A direct call multiplyBy(c, xs) on an array of numbers and strings.
CallMultiplyByJs ==
    /\ \E c \in Factors, xs \in SeqsUpTo(JsElements, MaxLen) :
          /\ given' = <<JsNum(c), xs>>
          /\ expect' = multiplyByJs(JsNum(c), xs)
          /\ arrayAfter' = xs
    /\ out' = <<>>
    /\ UNCHANGED <<constant, numbers, control, built, actLimit, act, sink, printCalls, hostVars>>

\* multiplyBy(c, Observable.of(...xs)).subscribe(next, error, complete) on a
\* stream of numbers and strings.
SubscribeMultiplyByJs ==
    /\ \E c \in Factors, xs \in SeqsUpTo(JsElements, MaxLen) :
          /\ given' = <<JsNum(c), xs>>
          /\ out' = ofMapJs(<<>>, JsNum(c), xs)
    /\ expect' = <<>>
    /\ arrayAfter' = <<>>
    /\ UNCHANGED <<constant, numbers, control, built, actLimit, act, sink, printCalls, hostVars>>

\* multiplyAndPrint(out), the loop: calls out for each number in turn.
MultiplyAndPrintLoop ==
    /\ printCalls < MaxPrints
    /\ printCalls' = printCalls + 1
    /\ out' = loop(0, out)
    /\ log' = Append(log, "loop")
    /\ UNCHANGED <<constant, numbers, control, built, actLimit, act, sink, given, expect, arrayAfter, thunks, nodeVars>>

\* multiplyAndPrint(out), with mul and unary over map and forEach.
MultiplyAndPrintMap ==
    /\ printCalls < MaxPrints
    /\ printCalls' = printCalls + 1
    /\ out' = out \o mapForEach(PrintConstant, PrintNumbers)
    /\ log' = Append(log, "map")
    /\ UNCHANGED <<constant, numbers, control, built, actLimit, act, sink, given, expect, arrayAfter, thunks, nodeVars>>

\* multiplyAndPrint(constant, numbers, out), with ramda's multiply and unary,
\* called as the module calls it.
MultiplyAndPrintArgs ==
    /\ printCalls < MaxPrints
    /\ printCalls' = printCalls + 1
    /\ out' = out \o mapForEach(2, <<3, 1, 7>>)
    /\ log' = Append(log, "ramda")
    /\ UNCHANGED <<constant, numbers, control, built, actLimit, act, sink, given, expect, arrayAfter, thunks, nodeVars>>

\* const cb = sinon.spy(): a test starts with a spy that has no calls.
NewSpy ==
    /\ out' = <<>>
    /\ printCalls' = 0
    /\ log' = <<>>
    /\ UNCHANGED <<constant, numbers, control, built, actLimit, act, sink, given, expect, arrayAfter, thunks, nodeVars>>

\* Fault: main(print) runs the effect itself before it returns dirty.
ThunkMainEager ==
    /\ Len(thunks) < MaxBuilds
    /\ \E print \in Prints :
          /\ thunks' = Append(thunks, print)
          /\ out' = out \o dirty(print)
    /\ UNCHANGED <<constant, numbers, control, built, actLimit, act, sink, given, expect, arrayAfter, printCalls, log, nodeVars>>

\* main(print): returns the function dirty, closed over print, and calls
\* nothing.
ThunkMain ==
    /\ Len(thunks) < MaxBuilds
    /\ \E print \in Prints : thunks' = Append(thunks, print)
    /\ UNCHANGED <<constant, numbers, control, built, actLimit, act, sink, given, expect, arrayAfter, out, printCalls, log, nodeVars>>

\* dirty(), on one of the functions main has returned.
ThunkDirty ==
    /\ printCalls < MaxPrints
    /\ \E i \in 1..Len(thunks) :
          /\ out' = out \o dirty(thunks[i])
          /\ log' = Append(log, IF thunks[i] = "unary" THEN "thunk unary" ELSE "thunk")
    /\ printCalls' = printCalls + 1
    /\ UNCHANGED <<constant, numbers, control, built, actLimit, act, sink, given, expect, arrayAfter, thunks, nodeVars>>

\* ---------------------------------------------------------- specifications

\* The app bootstrap: constant 2, Observable.of(3, 1, 7), timer(0, 1000).
InitFixed ==
    /\ constant = 2
    /\ numbers = Of(<<3, 1, 7>>)
    /\ control = Timer
    /\ built = 0
    /\ act = [a \in Acts |-> IdleAct]
    /\ sink = PlainSink
    /\ given = <<>>
    /\ expect = <<>>
    /\ arrayAfter = <<>>
    /\ out = <<>>
    /\ printCalls = 0
    /\ InitHost

\* One subscription to a pipeline over any of the bounded inputs.
Init ==
    /\ constant \in StreamFactors
    /\ numbers \in NumberStreams
    /\ control \in ControlStreams
    /\ built = 0
    /\ actLimit = 1
    /\ act = [a \in Acts |-> IdleAct]
    /\ sink = PlainSink
    /\ given = <<>>
    /\ expect = <<>>
    /\ arrayAfter = <<>>
    /\ out = <<>>
    /\ printCalls = 0
    /\ InitHost

Next ==
    \/ Main
    \/ \E a \in Acts, p \in 1..MaxBuilds : Subscribe(a, p)
    \/ \E a \in Acts : Connect(a)
    \/ \E a \in Acts : NumEvent(a)
    \/ \E a \in Acts : Tick(a)
    \/ \E a \in Acts : SinkReturn(a)
    \/ \E a \in Acts : Unsubscribe(a)

Spec == Init /\ [][Next]_vars

\* The unit tests of multiplyBy on arrays.
InitT == InitFixed /\ actLimit = 0

NextT == CallMultiplyBy

SpecT == InitT /\ [][NextT]_vars

\* The printing versions called on a spy, next to one subscription to the
\* pipeline of the README's numbers.
InitPrint ==
    /\ constant = PrintConstant
    /\ numbers \in [vals : {PrintNumbers}, end : {"complete"}, sync : BOOLEAN]
    /\ control = Timer
    /\ built = 0
    /\ actLimit = 1
    /\ act = [a \in Acts |-> IdleAct]
    /\ sink = PlainSink
    /\ given = <<>>
    /\ expect = <<>>
    /\ arrayAfter = <<>>
    /\ out = <<>>
    /\ printCalls = 0
    /\ InitHost

NextPrint ==
    \/ Next
    \/ MultiplyAndPrintLoop
    \/ MultiplyAndPrintMap
    \/ MultiplyAndPrintArgs
    \/ NewSpy

SpecPrint == InitPrint /\ [][NextPrint]_vars

\* Every version of the program on the README's numbers: the three
\* multiplyAndPrint, the deferred thunk, and one subscription to the
\* pipeline over Observable.of(3, 1, 7).
InitVersions ==
    /\ constant = PrintConstant
    /\ numbers = Of(PrintNumbers)
    /\ control = Timer
    /\ built = 0
    /\ actLimit = 1
    /\ act = [a \in Acts |-> IdleAct]
    /\ sink = PlainSink
    /\ given = <<>>
    /\ expect = <<>>
    /\ arrayAfter = <<>>
    /\ out = <<>>
    /\ printCalls = 0
    /\ InitHost

NextVersions ==
    \/ MultiplyAndPrintLoop
    \/ MultiplyAndPrintMap
    \/ MultiplyAndPrintArgs
    \/ NewSpy
    \/ ThunkMain
    \/ ThunkDirty
    \/ Main
    \/ \E a \in Acts, p \in 1..MaxBuilds : Subscribe(a, p)
    \/ \E a \in Acts : Connect(a)
    \/ \E a \in Acts : Tick(a)
    \/ \E a \in Acts : SinkReturn(a)

SpecVersions == InitVersions /\ [][NextVersions]_vars

\* The skip and take a test puts between the pipeline and its subscriber:
\* none, take(1), skip(1), skip(1).take(1).
Operators == [skip : 0..1, take : 0..1]

\* One subscription to the pipeline of the README's numbers, through skip
\* and take.
InitTake ==
    /\ constant = PrintConstant
    /\ numbers \in [vals : {PrintNumbers}, end : {"complete"}, sync : BOOLEAN]
    /\ control = Timer
    /\ built = 0
    /\ actLimit = 1
    /\ \E ops \in Operators :
          act = [a \in Acts |-> [IdleAct EXCEPT !.skip = ops.skip, !.take = ops.take]]
    /\ sink = PlainSink
    /\ given = <<>>
    /\ expect = <<>>
    /\ arrayAfter = <<>>
    /\ out = <<>>
    /\ printCalls = 0
    /\ InitHost

SpecTake == InitTake /\ [][Next]_vars

\* What the ticks of a run carry, as an offset to the timer's counter: the
\* counter itself, or other numbers.
TickOffsets == {0, 5}

\* Two subscriptions whose control streams tick alike and carry different
\* payloads.
InitTicks ==
    /\ constant = 2
    /\ numbers \in {s \in NumberStreams : s.end = "complete" /\ Len(s.vals) = 2}
    /\ control \in {c \in ControlStreams : c = Timer \/ Len(c.vals) = 1}
    /\ built = 0
    /\ actLimit = 2
    /\ \E o1 \in TickOffsets, o2 \in TickOffsets :
          /\ o1 < o2
          /\ act = [a \in Acts |->
                       [IdleAct EXCEPT !.tickOffset = IF a = 1 THEN o1 ELSE o2]]
    /\ sink = PlainSink
    /\ given = <<>>
    /\ expect = <<>>
    /\ arrayAfter = <<>>
    /\ out = <<>>
    /\ printCalls = 0
    /\ InitHost

SpecTicks == InitTicks /\ [][Next]_vars

\* multiplyBy on arrays and on streams whose elements need not be numbers.
NextJs == CallMultiplyByJs \/ SubscribeMultiplyByJs

SpecJs == InitT /\ [][NextJs]_vars

\* Two subscriptions, to one pipeline or to two pipelines built from the same
\* arguments (the README's "one cold stream, two subscribers").
InitMulti ==
    /\ constant = 2
    /\ numbers \in {s \in NumberStreams : s.end # "never" /\ Len(s.vals) = 2}
    /\ control \in {c \in ControlStreams : c = Timer \/ Len(c.vals) = 1}
    /\ built = 0
    /\ actLimit = 2
    /\ act = [a \in Acts |-> IdleAct]
    /\ sink = PlainSink
    /\ given = <<>>
    /\ expect = <<>>
    /\ arrayAfter = <<>>
    /\ out = <<>>
    /\ printCalls = 0
    /\ InitHost

SpecMulti == InitMulti /\ [][Next]_vars

\* The next callbacks a subscriber may pass: plain, throwing in one of its
\* calls, or unsubscribing in one of its calls.
Sinks ==
    {[throwAt |-> t, cancelAt |-> c] :
        t \in 0..MaxLen, c \in 0..MaxLen} \ {b \in [throwAt : 0..MaxLen, cancelAt : 0..MaxLen] : b.throwAt # 0 /\ b.cancelAt # 0}

\* One subscription whose next callback may throw or unsubscribe.
InitSink ==
    /\ constant = 2
    /\ numbers \in {s \in NumberStreams : s.end = "complete"}
    /\ control \in {c \in ControlStreams : c.end # "error"}
    /\ built = 0
    /\ actLimit = 1
    /\ act = [a \in Acts |-> IdleAct]
    /\ sink \in Sinks
    /\ given = <<>>
    /\ expect = <<>>
    /\ arrayAfter = <<>>
    /\ out = <<>>
    /\ printCalls = 0
    /\ InitHost

SpecSink == InitSink /\ [][Next]_vars

\* ------------------------------------------------------- what a run shows

IsNext(c) == c.kind = "next"

IsComplete(c) == c.kind = "complete"

IsError(c) == c.kind = "error"

\* The values the sink of subscription a has received, in order.
Delivered(a) ==
    LET nexts == SelectSeq(act[a].calls, IsNext)
    IN [k \in 1..Len(nexts) |-> nexts[k].value]

Completions(a) == Len(SelectSeq(act[a].calls, IsComplete))

Errors(a) == Len(SelectSeq(act[a].calls, IsError))

IsPrefix(s, t) == Len(s) <= Len(t) /\ \A k \in 1..Len(s) : s[k] = t[k]

\* Ticks (not counting the stream's end) the control stream has produced for a.
TicksProduced(a) ==
    IF act[a].ctlPos <= Len(control.vals) THEN act[a].ctlPos ELSE Len(control.vals)

\* Input values (not counting the stream's end) produced for a.
InputsProduced(a) ==
    IF act[a].numPos <= Len(numbers.vals) THEN act[a].numPos ELSE Len(numbers.vals)

\* The subscribe call or some source event of a can still run.
CanProgress(a) ==
    CanConnect(a) \/ CanNumEvent(a) \/ CanTick(a) \/ CanSinkReturn(a)

\* ------------------------------------------------------------------ claims

\* C1: multiplyBy(f, xs) has the length of xs and holds f * xs[i] at every
\* index i, in input order; multiplyBy(f, []) is the empty array.
C1_MultiplyByElementwise ==
    given # <<>> =>
        LET f == given[1]
            xs == given[2]
        IN /\ Len(expect) = Len(xs)
           /\ \A i \in 1..Len(xs) : expect[i] = f * xs[i]
           /\ (xs = <<>> => expect = <<>>)

\* C1 witness: the test case multiplyBy(2, [3, 1, 7]) has returned [6, 2, 14].
C1_Witness == given = <<2, <<3, 1, 7>>>> /\ expect = <<6, 2, 14>>

\* The streams of C2: finite numbers, and a control stream that does not
\* fail and supplies at least as many ticks as there are numbers.
EnoughTicks ==
    /\ numbers.end = "complete"
    /\ control.end # "error"
    /\ Len(control.vals) >= Len(numbers.vals)

\* C2: with n numbers and at least n ticks, the sink receives f*xs[0], ...,
\* f*xs[n-1], each once and in input order, and then completion is signalled:
\* what has been delivered is always a prefix of the products, a run that is
\* neither complete nor cancelled can always take another source event, and
\* the completion callback comes once, last, after all n products.
C2_DeliversProductsThenCompletes ==
    \A a \in Acts :
        (act[a].subscribed /\ EnoughTicks) =>
            /\ IsPrefix(Delivered(a), multiplyBy(constant, numbers.vals))
            /\ Errors(a) = 0
            /\ (~act[a].closed => CanProgress(a))
            /\ (act[a].closed /\ ~act[a].cancelled =>
                   /\ Delivered(a) = multiplyBy(constant, numbers.vals)
                   /\ Completions(a) = 1
                   /\ act[a].calls[Len(act[a].calls)] = CompleteCall)

\* C2 witness: factor 2, numbers 3, 1, 3 on the timer: 6, 2, 6, then complete.
C2_Witness ==
    \E a \in Acts :
        /\ constant = 2 /\ numbers = Of(<<3, 1, 3>>) /\ control = Timer
        /\ act[a].calls = <<NextCall(6), NextCall(2), NextCall(6), CompleteCall>>

\* C3: however often main is called, a pipeline nobody subscribed to calls no
\* callback: the sink is reached only through subscribe.
C3_NoSinkCallBeforeSubscribe ==
    \A a \in Acts : ~act[a].subscribed => act[a].calls = <<>>

\* C3 witness: main has been called twice and nothing has been subscribed.
C3_Witness == built = 2 /\ Subscribed = {}

\* C4: building the pipeline subscribes to neither source: no input value and
\* no tick is consumed and the timer is not started before subscribe.
C4_BuildSubscribesToNothing ==
    \A a \in Acts :
        ~act[a].subscribed =>
            /\ ~act[a].numOpen /\ ~act[a].ctlOpen
            /\ act[a].numPos = 0 /\ act[a].ctlPos = 0
            /\ act[a].numBuf = <<>> /\ act[a].ctlBuf = <<>>

\* C4 witness: a pipeline over a non-empty stream is built and not subscribed.
C4_Witness == built >= 1 /\ Subscribed = {} /\ numbers.vals # <<>>

\* C5: the sink never holds more values than ticks produced so far, nor more
\* than input values produced so far.
C5_DeliveredAtMostTicksAndInputs ==
    \A a \in Acts :
        /\ Len(Delivered(a)) <= TicksProduced(a)
        /\ Len(Delivered(a)) <= InputsProduced(a)

\* C5 witness: all three inputs are buffered, one tick has come, one value is out.
C5_Witness ==
    \E a \in Acts :
        /\ Len(numbers.vals) = 3 /\ InputsProduced(a) = 3
        /\ TicksProduced(a) = 1 /\ Len(Delivered(a)) = 1

\* The streams of C6: finite numbers, and a control stream that does not
\* fail and is longer than the numbers or unbounded.
LongerPacing ==
    /\ numbers.end = "complete"
    /\ \/ control.end = "never"
       \/ control.end = "complete" /\ Len(control.vals) > Len(numbers.vals)

\* The numbers stream has delivered its end to a.
NumbersEnded(a) == act[a].numPos = Events(numbers) /\ numbers.end # "never"

\* The control stream has delivered its end to a.
ControlEnded(a) == act[a].ctlPos = Events(control) /\ control.end # "never"

\* C6 as stated: for every finite input stream under a longer pacing stream,
\* the run is complete once the input has ended and the sink has returned
\* from its n-th value,
\* and no more than n ticks are ever consumed.
C6_Original ==
    \A a \in Acts :
        (act[a].subscribed /\ LongerPacing) =>
            /\ (NumbersEnded(a) /\ Len(Delivered(a)) = Len(numbers.vals)
                    /\ act[a].pc = "idle" /\ ~act[a].cancelled
                  => act[a].closed /\ Completions(a) = 1)
            /\ TicksProduced(a) <= Len(numbers.vals)

\* C6 amended: the run is complete once the input has ended and its n-th
\* value is out, without an (n+1)-th tick; when the input stream emits
\* synchronously on subscription, as Observable.of does, every tick consumed
\* has released a value, so at most n ticks are consumed.  (zip buffers the
\* ticks that arrive before an asynchronous input does.)
C6_CompletesAtLastInput ==
    \A a \in Acts :
        (act[a].subscribed /\ LongerPacing) =>
            /\ (NumbersEnded(a) /\ Len(Delivered(a)) = Len(numbers.vals)
                    /\ act[a].pc = "idle" /\ ~act[a].cancelled
                  => act[a].closed /\ Completions(a) = 1)
            /\ (numbers.sync =>
                   /\ TicksProduced(a) = Len(Delivered(a))
                   /\ TicksProduced(a) <= Len(numbers.vals)
                   /\ act[a].ctlBuf = <<>>)

\* C6 witness: Observable.of(3, 1, 1) on the timer has completed on the
\* third tick.
C6_Witness ==
    \E a \in Acts :
        /\ numbers = Of(<<3, 1, 1>>) /\ control = Timer
        /\ act[a].closed /\ Completions(a) = 1 /\ TicksProduced(a) = 3

\* C7: once a running subscription is cancelled, no callback is invoked any
\* more and neither source is pulled: both inner subscriptions are torn
\* down and nothing the subscription holds changes.
C7_NothingAfterCancel ==
    [][\A a \in Acts :
          act[a].cancelled =>
              /\ ~act[a].numOpen /\ ~act[a].ctlOpen
              /\ act'[a].calls = act[a].calls
              /\ act'[a].ctlPos = act[a].ctlPos
              /\ act'[a].numPos = act[a].numPos]_vars

\* C7 witness: cancelled after the first of three values, with ticks left.
C7_Witness ==
    \E a \in Acts :
        /\ Len(numbers.vals) = 3 /\ control = Timer
        /\ act[a].cancelled /\ Len(Delivered(a)) = 1 /\ act[a].calls = <<NextCall(6)>>

\* A source has completed and every value it delivered has been released.
Exhausted(a) ==
    \/ NumbersEnded(a) /\ numbers.end = "complete" /\ act[a].numBuf = <<>>
    \/ ControlEnded(a) /\ control.end = "complete" /\ act[a].ctlBuf = <<>>

\* C8: on normal exhaustion (and the last sink call returned) the completion
\* callback has been invoked exactly once; it is never invoked twice, and it is the last callback of the
\* subscription: every sink call precedes it.
C8_CompleteOnceAndLast ==
    \A a \in Acts :
        /\ Completions(a) <= 1
        /\ \A k \in 1..Len(act[a].calls) :
              act[a].calls[k] = CompleteCall => k = Len(act[a].calls)
        /\ (Exhausted(a) /\ act[a].pc = "idle" /\ ~act[a].cancelled /\ Errors(a) = 0
               => Completions(a) = 1 /\ act[a].closed)

\* C8 witness: an asynchronous stream of three numbers has been exhausted.
C8_Witness ==
    \E a \in Acts :
        /\ ~numbers.sync /\ Len(numbers.vals) = 3 /\ Exhausted(a)
        /\ Len(Delivered(a)) = 3 /\ Completions(a) = 1

\* A source has delivered a failure to a.
Failed(a) ==
    \/ NumbersEnded(a) /\ numbers.end = "error"
    \/ ControlEnded(a) /\ control.end = "error"

\* C9: when the input or the pacing stream fails, the error callback has
\* been invoked exactly once, the completion callback not at all, and the
\* error is the last callback: no sink call follows it.
C9_ErrorOnceAndLast ==
    \A a \in Acts :
        /\ Errors(a) <= 1
        /\ \A k \in 1..Len(act[a].calls) :
              act[a].calls[k] = ErrorCall => k = Len(act[a].calls)
        /\ (Errors(a) = 1 => Completions(a) = 0 /\ act[a].closed)
        /\ (Failed(a) => Errors(a) = 1)

\* C9 witness: the pacing stream failed after two values had been delivered.
C9_Witness ==
    \E a \in Acts :
        /\ control.end = "error" /\ ControlEnded(a)
        /\ Len(Delivered(a)) = 2 /\ Errors(a) = 1

\* The states of one activation, read off the subscriber chain.
InState(a, s) ==
    CASE s = "Idle" -> ~act[a].subscribed
      [] s = "Running" -> act[a].subscribed /\ ~act[a].closed
      [] s = "Completed" -> act[a].closed /\ Completions(a) > 0
      [] s = "Errored" -> act[a].closed /\ (Errors(a) > 0 \/ act[a].thrown # "none")
      [] s = "Cancelled" -> act[a].closed /\ act[a].cancelled

States == {"Idle", "Running", "Completed", "Errored", "Cancelled"}

Terminal == {"Completed", "Errored", "Cancelled"}

StatesOf(a) == {s \in States : InState(a, s)}

\* C10: an activation is in exactly one state, moves only Idle -> Running ->
\* terminal, and a terminal state is absorbing: nothing of the activation
\* changes, and it holds no subscription to its sources.
C10_StateMachine ==
    /\ [](\A a \in Acts :
            /\ Cardinality(StatesOf(a)) = 1
            /\ (StatesOf(a) \cap Terminal # {} =>
                    ~act[a].numOpen /\ ~act[a].ctlOpen))
    /\ [][\A a \in Acts :
            /\ (InState(a, "Idle") =>
                    InState(a, "Idle")' \/ InState(a, "Running")')
            /\ (InState(a, "Running") =>
                    InState(a, "Running")' \/ (StatesOf(a)' \cap Terminal # {}))
            /\ (StatesOf(a) \cap Terminal # {} => act'[a] = act[a])]_vars

\* C10 witness: one run has completed, after having delivered a value.
C10_Witness ==
    \E a \in Acts : InState(a, "Completed") /\ Len(Delivered(a)) >= 1

\* C11: the pipeline is deterministic.  Two subscriptions, to the same
\* pipeline or to two pipelines built from the same arguments, that have
\* taken the same number of events from their sources have received the
\* same callbacks; two that have both run to completion have received the
\* identical sequence, each followed by its own single completion.
C11_SubscriptionsAgree ==
    \A a \in Acts, b \in Acts :
        (act[a].subscribed /\ act[b].subscribed
            /\ act[a].pc = "idle" /\ act[b].pc = "idle") =>
          /\ (act[a].numPos = act[b].numPos /\ act[a].ctlPos = act[b].ctlPos
                  /\ ~act[a].cancelled /\ ~act[b].cancelled
                => act[a].calls = act[b].calls)
          /\ (Completions(a) = 1 /\ Completions(b) = 1
                => /\ Delivered(a) = Delivered(b)
                   /\ act[a].calls = Append(SelectSeq(act[a].calls, IsNext), CompleteCall)
                   /\ act[b].calls = Append(SelectSeq(act[b].calls, IsNext), CompleteCall))

\* C11 witness: one pipeline over Observable.of(3, 1), subscribed twice, and
\* both subscriptions have received 6, 2 and their completion.
C11_Witness ==
    /\ numbers = Of(<<3, 1>>) /\ control = Timer
    /\ act[1].pipe = act[2].pipe
    /\ act[1].calls = <<NextCall(6), NextCall(2), CompleteCall>>
    /\ act[2].calls = <<NextCall(6), NextCall(2), CompleteCall>>

\* C12 as stated: a failure of the sink reaches the caller of the activation,
\* the code that called subscribe; it is not swallowed, the value is not
\* retried and the sink is not called again.
C12_Original ==
    \A a \in Acts :
        /\ (sink.throwAt # 0 /\ Len(Delivered(a)) = sink.throwAt
                /\ act[a].pc = "idle"
              => act[a].thrown = "subscribe")
        /\ (act[a].thrown # "none" =>
                /\ Len(Delivered(a)) = sink.throwAt
                /\ act[a].closed /\ ~act[a].numOpen /\ ~act[a].ctlOpen)

\* C12 amended: a failure of the sink is rethrown out of the callback that
\* was delivering the value, the timer's or the input event's, after
\* subscribe has returned; it is not swallowed and not turned into an error
\* or completion callback, the value is not retried, the subscription is
\* torn down and the sink is not called again.
C12_SinkFailureRethrown ==
    \A a \in Acts :
        /\ (sink.throwAt # 0 /\ Len(Delivered(a)) = sink.throwAt
                /\ act[a].pc = "idle"
              => act[a].thrown = "callback")
        /\ (act[a].thrown # "none" =>
                /\ Len(Delivered(a)) = sink.throwAt
                /\ Completions(a) = 0 /\ Errors(a) = 0
                /\ act[a].closed /\ ~act[a].numOpen /\ ~act[a].ctlOpen)

\* C12 witness: the sink threw on the second of three values, and 14 was
\* never delivered.
C12_Witness ==
    \E a \in Acts :
        /\ numbers = Of(<<3, 1, 3>>) /\ control = Timer /\ sink.throwAt = 2
        /\ act[a].thrown = "callback"
        /\ act[a].calls = <<NextCall(6), NextCall(2)>>
        /\ act[a].ctlPos = 2

\* The last multiplyBy call was given an element that is not a number.
NonNumericGiven ==
    /\ given # <<>>
    /\ \E k \in 1..Len(given[2]) : given[2][k].type # "number"

\* C13: a non-numeric element reaching multiplyBy is never silently coerced:
\* a direct call raises InvalidInput to its caller and returns no value;
\* in a subscription the error callback is invoked and no value derived
\* from the non-numeric element reaches the sink.
C13_NonNumericRejected ==
    NonNumericGiven =>
        /\ (expect # <<>> => expect.threw)
        /\ (out # <<>> =>
               /\ \E k \in 1..Len(out) : out[k].kind = "error"
               /\ \A k \in 1..Len(out) :
                     (out[k].kind = "next" /\ k <= Len(given[2]))
                         => given[2][k].type = "number")

\* C14: sink calls of one subscription never overlap and are never
\* reordered.  While a sink call is in progress no event is delivered and
\* no other sink call starts, though ticks and inputs are due; the values
\* the sink has received are the products of the first inputs, in input order.
C14_SinkCallsInTurn ==
    /\ [](\A a \in Acts : \A k \in 1..Len(Delivered(a)) :
             Delivered(a)[k] = multiply(constant, numbers.vals[k]))
    /\ [][\A a \in Acts :
            act[a].pc = "sink" =>
                /\ act'[a].calls = act[a].calls
                    \/ act'[a].calls = Append(act[a].calls, CompleteCall)
                /\ act'[a].pc = "idle"
                /\ act'[a].numPos = act[a].numPos
                /\ act'[a].ctlPos = act[a].ctlPos]_vars

\* C14 witness: the sink is handling the first value while the second is
\* buffered and the timer has ticks to deliver.
C14_Witness ==
    \E a \in Acts :
        /\ act[a].pc = "sink" /\ Len(Delivered(a)) = 1
        /\ act[a].numBuf # <<>> /\ act[a].ctlOpen /\ control = Timer

\* C15: a sink that calls unsubscribe on its own subscription is safe.  The
\* step that follows is the return of that sink call, which adds no
\* callback; afterwards the subscription is cancelled and closed with both
\* sources released, the sink has been called no further, and neither the
\* completion nor the error callback has been invoked, not even a
\* completion that was due after this value.
C15_CancelInsideSink ==
    /\ [](\A a \in Acts :
            sink.cancelAt # 0 =>
                /\ Len(Delivered(a)) <= sink.cancelAt
                /\ (Len(Delivered(a)) = sink.cancelAt /\ act[a].pc = "idle" =>
                       /\ act[a].cancelled /\ act[a].closed
                       /\ ~act[a].numOpen /\ ~act[a].ctlOpen
                       /\ Completions(a) = 0 /\ Errors(a) = 0
                       /\ act[a].thrown = "none"))
    /\ [][\A a \in Acts :
            (act[a].pc = "sink" /\ Len(Delivered(a)) = sink.cancelAt) =>
                /\ act'[a].pc = "idle"
                /\ act'[a].cancelled
                /\ act'[a].calls = act[a].calls]_vars

\* C15 witness: the sink unsubscribed while handling the last of three
\* values; the completion that was due has not been delivered.
C15_Witness ==
    \E a \in Acts :
        /\ numbers = Of(<<3, 1, 3>>) /\ control = Timer /\ sink.cancelAt = 3
        /\ act[a].cancelled /\ act[a].pc = "idle"
        /\ act[a].calls = <<NextCall(6), NextCall(2), NextCall(6)>>

\* The smaller of two numbers.
Min(x, y) == IF x <= y THEN x ELSE y

\* C16: concurrent subscriptions share no state.  A step of one (an event,
\* its cancellation, completion or failure) changes nothing in another, and
\* what a subscription has received is determined by the inputs and ticks
\* it has taken itself: one value per input paired with a tick.
C16_ActivationsIndependent ==
    /\ [](\A a \in Acts :
            Len(Delivered(a)) = Min(InputsProduced(a), TicksProduced(a)))
    /\ [][\A a \in Acts, b \in Acts :
            (a # b /\ act'[a] # act[a]) => act'[b] = act[b]]_vars

\* C16 witness: of two subscriptions to two separately built pipelines, the
\* first was cancelled after one value and the second has run to completion.
C16_Witness ==
    /\ act[1].subscribed /\ act[2].subscribed /\ act[1].pipe # act[2].pipe
    /\ act[1].cancelled /\ Len(Delivered(1)) = 1
    /\ Len(Delivered(2)) = 2 /\ Completions(2) = 1

\* b is a further subscription to a pipeline that a was subscribed to before.
Resubscribed(a, b) ==
    /\ a < b
    /\ act[a].subscribed /\ act[b].subscribed
    /\ act[a].pipe = act[b].pipe

\* C17 as stated: a second subscription to the same pipeline is rejected
\* with an error and starts no run.
C17_Original ==
    \A a \in Acts, b \in Acts :
        (Resubscribed(a, b) /\ act[b].pc = "idle") =>
            /\ act[b].calls = <<ErrorCall>>
            /\ act[b].numPos = 0 /\ act[b].ctlPos = 0

\* C17 amended: a second subscription to the same pipeline, made while the
\* first is running or after it has ended, is accepted and is a run of its
\* own: its error callback is invoked only when one of its sources fails,
\* it holds its own subscriptions to the sources until it ends, and when a
\* source is exhausted it receives its completion.
C17_ResubscribeStartsRun ==
    \A a \in Acts, b \in Acts :
        (Resubscribed(a, b) /\ act[b].pc = "idle") =>
            /\ (Errors(b) > 0 => Failed(b))
            /\ (~act[b].closed => act[b].numOpen \/ act[b].ctlOpen)
            /\ (Exhausted(b) /\ ~act[b].cancelled /\ Errors(b) = 0
                   => Completions(b) = 1)

\* C17 witness: the first subscription to a pipeline has completed, and a
\* second subscription to the same pipeline is running and has delivered
\* its first value.
C17_Witness ==
    /\ Resubscribed(1, 2)
    /\ Completions(1) = 1
    /\ ~act[2].closed /\ act[2].calls = <<NextCall(6)>>

C19_OneArgumentPerCall ==
    /\ [](\A k \in 1..Len(out) :
            /\ Len(out[k]) = 1
            /\ \E j \in 1..Len(PrintNumbers) :
                  out[k][1] = PrintNumbers[j] * PrintConstant)
    /\ [](\A a \in Acts : \A k \in 1..Len(act[a].calls) :
            act[a].calls[k].kind = "next" =>
                act[a].calls[k].value = numbers.vals[k] * constant)
    /\ [][\A a \in Acts :
            Len(Delivered(a))' <= Len(Delivered(a)) + 1]_vars

\* C19 witness: multiplyAndPrint has called the spy three times, and the
\* subscription has delivered its three values.
C19_Witness ==
    /\ out = <<(<<6>>), (<<2>>), (<<14>>)>>
    /\ \E a \in Acts : Len(Delivered(a)) = 3

\* The calls n runs of multiplyAndPrint make.
RECURSIVE Repeated(_)
Repeated(n) ==
    IF n = 0 THEN <<>> ELSE Repeated(n - 1) \o <<(<<6>>), (<<2>>), (<<14>>)>>

\* C20: each call of multiplyAndPrint(out) calls out three times, with 6,
\* then 2, then 14, and does nothing else; a further call repeats the same
\* three calls.
C20_ThreeCallsEachTime ==
    /\ [](out = Repeated(printCalls))
    /\ [][printCalls' = printCalls + 1 =>
            /\ out' = out \o <<(<<6>>), (<<2>>), (<<14>>)>>
            /\ UNCHANGED <<constant, numbers, control, built, actLimit, act,
                           sink, given, expect, arrayAfter, thunks, nodeVars>>]_vars

\* C20 witness: multiplyAndPrint has been called twice with one spy.
C20_Witness ==
    /\ printCalls = 2
    /\ out = <<(<<6>>), (<<2>>), (<<14>>), (<<6>>), (<<2>>), (<<14>>)>>

\* The last version run with the spy was a dirty function.
LastWasDirty == log # <<>> /\ log[Len(log)] \in {"thunk", "thunk unary"}

\* C21: main(print) never invokes print, however often it is called: a call
\* of main leaves the spy as it was, and a spy on which nothing has been
\* run holds no call.  Every call of a dirty function invokes print three
\* times, once per number, with 6, then 2, then 14 as the first argument.
C21_ThunkDefersPrint ==
    /\ [](log = <<>> => out = <<>>)
    /\ [][/\ (Len(thunks') > Len(thunks) =>
                 out' = out /\ printCalls' = printCalls)
          /\ ((Len(log') = Len(log) + 1 /\ LastWasDirty') =>
                 /\ Len(out') = Len(out) + 3
                 /\ \A k \in 1..Len(out) : out'[k] = out[k]
                 /\ out'[Len(out) + 1][1] = 6
                 /\ out'[Len(out) + 2][1] = 2
                 /\ out'[Len(out) + 3][1] = 14)]_vars

\* C21 witness: main was called twice, and one call of dirty has invoked
\* print three times.
C21_Witness ==
    /\ Len(thunks) = 2
    /\ log = <<"thunk">>
    /\ Len(out) = 3 /\ out[3][1] = 14

\* The products of the numbers stream, in order.
Products == [k \in 1..Len(numbers.vals) |-> multiply(constant, numbers.vals[k])]

\* What skip(s).take(t) lets through of the products (t = 0: no take).
Window(s, t) ==
    SubSeq(Products, s + 1,
           IF t = 0 THEN Len(Products) ELSE Min(Len(Products), s + t))

C30_FirstNumberIsTwo ==
    \A a \in Acts :
        (act[a].take = 1 /\ act[a].skip = 0 /\ Len(Delivered(a)) >= 1) =>
            Delivered(a)[1] = 2

\* C23: what a subscription receives does not depend on what its ticks
\* carry.  Two runs over the same constant and numbers, whose control
\* streams tick alike with different payloads, have received the same
\* callbacks whenever they have taken the same number of inputs and ticks
\* (and no sink call is in progress), and the values are the products of
\* the inputs alone.
C23_TickPayloadIgnored ==
    \A a \in Acts, b \in Acts :
        (act[a].subscribed /\ act[b].subscribed
            /\ act[a].pc = "idle" /\ act[b].pc = "idle"
            /\ act[a].tickOffset # act[b].tickOffset
            /\ act[a].numPos = act[b].numPos /\ act[a].ctlPos = act[b].ctlPos
            /\ ~act[a].cancelled /\ ~act[b].cancelled) =>
          /\ act[a].calls = act[b].calls
          /\ IsPrefix(Delivered(a), Products)

\* C23 witness: two runs whose ticks carried 0, 1 and 5, 6 have both
\* received the same two values and their completion.
C23_Witness ==
    /\ act[1].tickOffset = 0 /\ act[2].tickOffset = 5
    /\ act[1].ctlPos = 2 /\ act[2].ctlPos = 2
    /\ Len(Delivered(1)) = 2 /\ act[1].calls = act[2].calls
    /\ Completions(1) = 1

\* ---------------------------------------------------------------------
\* Loading ./index.js in a mocha process: require and require-and-forget.

MaxTests == 4

TestNames == {"prints numbers", "prints numbers again"}

\* Evaluating the module runs its top-level statements, which print the
\* three products with console.log.
evaluate == loop(0, <<>>)

\* Fault: require evaluates the module whether or not it is cached.
requireUncached(cached) ==
    [cache |-> TRUE, printed |-> evaluate]

\* require('./index.js'): evaluates the module and caches it on the first
\* load; a cached module is returned without evaluating anything.
requireModule(cached) ==
    IF cached
    THEN [cache |-> TRUE, printed |-> <<>>]
    ELSE [cache |-> TRUE, printed |-> evaluate]

\* forget('./index.js'): requires the module, then removes its entry from
\* require.cache so that the next load evaluates it again.
forget(cached) ==
    [cache |-> FALSE, printed |-> requireModule(cached).printed]

\* console.log.calledWith(v) on the spy's recorded calls.
calledWith(calls, v) ==
    \E k \in 1..Len(calls) : calls[k][1] = v

\* The three console.assert lines of a test.
assertsPass(calls) ==
    /\ calledWith(calls, 6)
    /\ calledWith(calls, 2)
    /\ calledWith(calls, 14)

\* One test: spy on console.log, load the module, assert on the spy.
RunTest(name, load, r) ==
    /\ Len(tests) < MaxTests
    /\ out' = r.printed
    /\ cache' = r.cache
    /\ tests' = Append(tests, [name |-> name, load |-> load,
                               printed |-> r.printed,
                               passed |-> assertsPass(r.printed)])
    /\ UNCHANGED <<constant, numbers, control, built, actLimit, act, sink,
                   given, expect, arrayAfter, printCalls, thunks, log,
                   pressed, keyApp>>

\* it(name, ...) whose body loads the module with require.
TestRequire ==
    \E name \in TestNames : RunTest(name, "require", requireModule(cache))

\* it(name, ...) whose body loads the module with require-and-forget.
TestForget ==
    \E name \in TestNames : RunTest(name, "forget", forget(cache))

\* A fresh mocha process: nothing loaded, no test run.
InitRequire ==
    InitVersions

NextRequire ==
    \/ TestRequire
    \/ TestForget

SpecRequire == InitRequire /\ [][NextRequire]_vars

\* The tests run so far all load the module the same way.
AllLoadedBy(load) ==
    \A k \in 1..Len(tests) : tests[k].load = load

\* C24: with require only the first load prints 6, 2, 14 and every later
\* load prints nothing; with require-and-forget every load prints 6, 2, 14
\* and both tests pass, in whichever order they run.
C24_RequireCachesForgetReloads ==
    /\ AllLoadedBy("require") =>
          \A k \in 1..Len(tests) :
              tests[k].printed = IF k = 1 THEN <<<<6>>, <<2>>, <<14>>>> ELSE <<>>
    /\ AllLoadedBy("forget") =>
          \A k \in 1..Len(tests) :
              /\ tests[k].printed = <<<<6>>, <<2>>, <<14>>>>
              /\ tests[k].passed

\* Both tests have run in each way of loading: a second plain require and
\* 'prints numbers again' before 'prints numbers' with require-and-forget.
C24_Witness ==
    /\ Len(tests) = 2
    /\ tests[1].name = "prints numbers again"
    /\ tests[2].name = "prints numbers"
    /\ AllLoadedBy("forget")
    /\ tests[2].passed

C24_WitnessCached ==
    /\ Len(tests) = 2
    /\ AllLoadedBy("require")
    /\ tests[2].printed = <<>>
    /\ ~tests[2].passed

\* ---------------------------------------------------------------------
\* The key-driven app: numbers typed on the terminal until Enter.

MaxKeys == 4

Enter == "\r"

\* The first argument of the keypress events the terminal can deliver.
Keys == {"3", "a", "\n", Enter}

DoneWithKeys == JsStr("done with keys")

\* Fault: the numbers stream is not tapped, only products are printed.
printProduct(app, k) ==
    LET n == ToNumber(JsStr(k))
    IN [app EXCEPT !.printed = Append(@, multiplyJs(JsNum(constant), n))]

\* main(constant, key$.map(Number).do(console.log)) subscribed with
\* console.log: Number(key) is printed by do, then its product by the
\* subscriber.
printBoth(app, k) ==
    LET n == ToNumber(JsStr(k))
    IN [app EXCEPT !.printed = @ \o <<n, multiplyJs(JsNum(constant), n)>>]

\* The source listener of takeUntil: every key is passed on.
sourceNext(app, k) ==
    IF app.listening
    THEN printBoth([app EXCEPT !.emitted = Append(@, k)], k)
    ELSE app

\* The complete callback of the app: console.log('done with keys') and
\* process.exit(0).
done(app) ==
    [app EXCEPT !.printed = Append(@, DoneWithKeys), !.exited = TRUE]

\* The notifier listener: enter$ = key$.filter(s => s === '\r'); its first
\* value completes the key stream, which removes both listeners.
notifierNext(app, k) ==
    IF app.listening /\ k = Enter
    THEN done([app EXCEPT !.completed = TRUE, !.listening = FALSE])
    ELSE app

\* Fault: the source listener is registered before the notifier's.
keypressSourceFirst(app, k) ==
    notifierNext(sourceNext(app, k), k)

\* process.stdin emits 'keypress': the listeners run in the order in which
\* they were added, and takeUntil subscribes its notifier before its source.
keypress(app, k) ==
    sourceNext(notifierNext(app, k), k)

\* The bootstrap: getKeys() and app.subscribe(...) add the listeners.
KeyStart ==
    /\ keyApp = IdleKeyApp
    /\ keyApp' = [keyApp EXCEPT !.listening = TRUE]
    /\ UNCHANGED <<constant, numbers, control, built, actLimit, act, sink,
                   given, expect, arrayAfter, out, printCalls, thunks, log,
                   cache, tests, pressed>>

\* A key is pressed on the terminal once the app has started, whether or
\* not the process is still there to hear it.
KeyPress ==
    /\ keyApp # IdleKeyApp
    /\ Len(pressed) < MaxKeys
    /\ \E k \in Keys :
          /\ pressed' = Append(pressed, k)
          /\ keyApp' = keypress(keyApp, k)
    /\ UNCHANGED <<constant, numbers, control, built, actLimit, act, sink,
                   given, expect, arrayAfter, out, printCalls, thunks, log,
                   cache, tests>>

InitKeys ==
    InitVersions

NextKeys ==
    \/ KeyStart
    \/ KeyPress

SpecKeys == InitKeys /\ [][NextKeys]_vars

\* Position of the first Enter among the keys pressed, or one past the end.
FirstEnter ==
    IF \E i \in 1..Len(pressed) : pressed[i] = Enter
    THEN CHOOSE i \in 1..Len(pressed) :
            /\ pressed[i] = Enter
            /\ \A j \in 1..(i - 1) : pressed[j] # Enter
    ELSE Len(pressed) + 1

BeforeEnter == SubSeq(pressed, 1, FirstEnter - 1)

Entered == FirstEnter <= Len(pressed)

\* C25: the key stream emits the keys pressed before the first Enter, in
\* arrival order; it never emits Enter, completes at the first Enter and
\* emits nothing for keys pressed after it.
C25_KeysUntilEnter ==
    keyApp # IdleKeyApp =>
        /\ keyApp.emitted = BeforeEnter
        /\ \A i \in 1..Len(keyApp.emitted) : keyApp.emitted[i] # Enter
        /\ keyApp.completed = Entered

\* Keys were pressed before Enter and after it.
C25_Witness ==
    /\ Len(pressed) = 4
    /\ FirstEnter = 3
    /\ keyApp.completed
    /\ Len(keyApp.emitted) = 2

\* C26: the output is, for each key before Enter in key order, the key's
\* number and then that number times the constant; at the first Enter
\* 'done with keys' is printed once, the process exits, and nothing is
\* printed afterwards.
C26_OriginalThenProduct ==
    keyApp # IdleKeyApp =>
        /\ Len(keyApp.printed) = 2 * Len(BeforeEnter) + (IF Entered THEN 1 ELSE 0)
        /\ \A i \in 1..Len(BeforeEnter) :
              /\ keyApp.printed[2 * i - 1] = ToNumber(JsStr(BeforeEnter[i]))
              /\ keyApp.printed[2 * i] =
                    multiplyJs(JsNum(2), ToNumber(JsStr(BeforeEnter[i])))
        /\ keyApp.exited = Entered
        /\ Entered => keyApp.printed[Len(keyApp.printed)] = DoneWithKeys
        /\ Cardinality({i \in 1..Len(keyApp.printed) :
                           keyApp.printed[i] = DoneWithKeys})
              = (IF Entered THEN 1 ELSE 0)

\* Two keys, then Enter, then one more key: 3 6 NaN NaN done with keys.
C26_Witness ==
    /\ pressed = <<"3", "a", Enter, "3">>
    /\ keyApp.printed = <<JsNum(3), JsNum(6), NaN, NaN, DoneWithKeys>>
    /\ keyApp.exited

\* ---------------------------------------------------------------------
\* Inputs and pacing of different lengths.

\* One subscription with console.log-like sink, constant 2, over numbers
\* that do not fail and any control stream.
InitPace ==
    /\ constant = 2
    /\ numbers \in {s \in NumberStreams : s.end # "error"}
    /\ control \in ControlStreams
    /\ built = 0
    /\ actLimit = 1
    /\ act = [a \in Acts |-> IdleAct]
    /\ sink = PlainSink
    /\ given = <<>>
    /\ expect = <<>>
    /\ arrayAfter = <<>>
    /\ out = <<>>
    /\ printCalls = 0
    /\ InitHost

SpecPace == InitPace /\ [][Next]_vars

EmptyInput == numbers.vals = <<>> /\ numbers.end = "complete"

\* C27: a run over an empty input never calls the sink and completes exactly
\* once, as soon as the input's end is delivered and whatever number of
\* ticks has come: inside subscribe, before the pacing stream is even
\* subscribed, for an input that emits synchronously.  A run that has not
\* completed is still due the input's end, or was cancelled, or its pacing
\* stream failed first.
C27_EmptyInputCompletes ==
    \A a \in Subscribed :
        EmptyInput =>
            /\ Delivered(a) = <<>>
            /\ Completions(a) <= 1
            /\ NumbersEnded(a) => act[a].calls = <<CompleteCall>> /\ act[a].closed
            /\ numbers.sync /\ act[a].pc = "idle" /\ ~CanConnect(a) =>
                  /\ act[a].calls = <<CompleteCall>>
                  /\ act[a].ctlPos = 0
                  /\ ~act[a].ctlOpen
            /\ \/ Completions(a) = 1
               \/ ~NumbersEnded(a)
                    /\ (CanNumEvent(a) \/ CanConnect(a) \/ act[a].cancelled
                        \/ Errors(a) = 1)

\* Observable.of() under the timer: completed, and no tick was ever taken.
C27_Witness ==
    \E a \in Subscribed :
        /\ numbers = Of(<<>>)
        /\ control = Timer
        /\ act[a].calls = <<CompleteCall>>
        /\ act[a].ctlPos = 0

\* The streams of C28: pacing completes after m ticks, the input holds more
\* than m values.
ShorterPacing ==
    /\ control.end = "complete"
    /\ Len(control.vals) < Len(numbers.vals)

FirstProducts(m) == SubSeq(Products, 1, m)

\* C28: when the pacing stream completes after m ticks and the input holds
\* n > m values, the sink receives a prefix of the first m products and never
\* more, no error is raised, and once the pacing stream has ended and m
\* inputs have come the sink has received exactly the first m products
\* followed by the one completion.
C28_PacingCutsInput ==
    \A a \in Subscribed :
        ShorterPacing =>
            LET m == Len(control.vals)
            IN /\ IsPrefix(Delivered(a), FirstProducts(m))
               /\ Errors(a) = 0
               /\ Completions(a) <= 1
               /\ ControlEnded(a) /\ InputsProduced(a) >= m /\ act[a].pc = "idle" =>
                     /\ Delivered(a) = FirstProducts(m)
                     /\ Completions(a) = 1
                     /\ act[a].calls[Len(act[a].calls)] = CompleteCall
                     /\ act[a].closed

\* Two ticks for three inputs: two products, then completion.
C28_Witness ==
    \E a \in Subscribed :
        /\ Len(control.vals) = 2 /\ control.end = "complete"
        /\ Len(numbers.vals) = 3
        /\ Delivered(a) = FirstProducts(2)
        /\ Completions(a) = 1

\* ---------------------------------------------------------------------
\* The versions of the tutorial side by side.

SixTwoFourteen == <<(<<6>>), (<<2>>), (<<14>>)>>

\* The next calls of subscription a as argument lists, like the spy's.
NextCalls(a) == [k \in 1..Len(Delivered(a)) |-> <<Delivered(a)[k]>>]

\* One version has been run on a fresh spy.
RanAlone(version) == log = <<version>>

\* C29: for factor 2 and numbers [3, 1, 7] every version makes the same out
\* calls and nothing else, out(6), out(2), out(14): the loop, the
\* map/forEach and the ramda multiplyAndPrint, the thunk main(out)() and
\* the pipeline subscribed with out.
C29_VersionsEquivalent ==
    /\ \A version \in {"loop", "map", "ramda", "thunk"} :
          RanAlone(version) => out = SixTwoFourteen
    /\ \A a \in Subscribed :
          /\ IsPrefix(NextCalls(a), SixTwoFourteen)
          /\ Completions(a) = 1 => NextCalls(a) = SixTwoFourteen

\* The versions agree once the thunk is given unary(out), as the module
\* itself calls it; main(out)() agrees with them in the first argument of
\* each call only.
C29_AgreeWithUnary ==
    /\ \A version \in {"loop", "map", "ramda", "thunk unary"} :
          RanAlone(version) => out = SixTwoFourteen
    /\ RanAlone("thunk") =>
          /\ Len(out) = 3
          /\ <<out[1][1], out[2][1], out[3][1]>> = <<6, 2, 14>>
    /\ \A a \in Subscribed :
          /\ IsPrefix(NextCalls(a), SixTwoFourteen)
          /\ Completions(a) = 1 => NextCalls(a) = SixTwoFourteen

\* main(out)() has run on a fresh spy, and the pipeline has completed: out
\* received the index and the array with each product, the subscriber the
\* product alone.
C29_Witness ==
    /\ RanAlone("thunk")
    /\ out = <<(<<6, 0, <<6, 2, 14>>>>), (<<2, 1, <<6, 2, 14>>>>), (<<14, 2, <<6, 2, 14>>>>)>>
    /\ \E a \in Subscribed : NextCalls(a) = SixTwoFourteen /\ Completions(a) = 1

====
